---- MODULE Spec2Model ----
\* A model of the DarkTodo application (src/src/App.tsx): the App component's
\* state (todos, darkMode, filter, inputValue), the two localStorage records it
\* reads on mount and writes from its effects, and its event handlers.
\*
\* Strings are sequences of one-character tokens, so that trim(), JSON.stringify
\* and JSON.parse are computed rather than assumed.  A localStorage entry is a
\* record [present, raw]: getItem returns null when present is FALSE.
EXTENDS Naturals, Sequences, FiniteSets

VARIABLES
    phase,          \* "closed": page not loaded; "running": App mounted; "crashed": render threw
    todos,          \* useState<Todo[]>
    darkMode,       \* useState<boolean>
    filter,         \* useState<Filter>
    inputValue,     \* useState('') : the text field
    storageTodos,   \* localStorage[STORAGE_TODOS]
    storageDark,    \* localStorage[STORAGE_DARKMODE]
    saveFailed,     \* per record: how many setItem calls in a row threw (catch branch)
    issued,         \* the ids crypto.randomUUID() has handed out so far
    lastOp,         \* history: the handler that ran last, its id argument, and for
                    \* a mount whether the two getItem calls returned
    calls           \* history: the texts submitted by addTodo (kept by SpecAdds only)

vars == <<phase, todos, darkMode, filter, inputValue, storageTodos, storageDark,
          saveFailed, issued, lastOp, calls>>

-----------------------------------------------------------------------------
\* Bounds

\* How many ids crypto.randomUUID() can hand out: no more tasks are added after that.
MaxIds == 2
\* How many failed writes may be outstanding (not yet followed by a successful
\* write of the same record).
MaxFailedWrites == 1

IdNames == <<"u1", "u2", "u3", "u4", "u5">>
Ids == {IdNames[i] : i \in 1..MaxIds}
NoId == "none"

\* What new Date().toISOString() may return.
Times == {"t1"}

Whitespace == {" ", "\t"}

\* What the user may have typed in the text field: nothing, blanks only, or a
\* text with blanks around and inside it.
Inputs == { <<>>, <<" ", "\t">>, <<" ", "b", " ", "c", "\t">> }
\* Further texts, typed where the order of the submitted texts is followed.
MoreInputs == { <<"a">>, <<"\t", "a", "b">> }

Filters == {"all", "active", "completed"}

-----------------------------------------------------------------------------
\* String.prototype.trim

RECURSIVE TrimLeft(_)
TrimLeft(s) ==
    IF s # <<>> /\ Head(s) \in Whitespace THEN TrimLeft(Tail(s)) ELSE s

RECURSIVE TrimRight(_)
TrimRight(s) ==
    IF s # <<>> /\ s[Len(s)] \in Whitespace
    THEN TrimRight(SubSeq(s, 1, Len(s) - 1))
    ELSE s

\* Mutant of Trim: the text is taken as typed.
NoTrim(s) == s

Trim(s) == TrimRight(TrimLeft(s))

-----------------------------------------------------------------------------
\* JSON.stringify(todos) and String(darkMode)

BoolText(b) == IF b THEN "true" ELSE "false"

StringifyTodo(t) ==
    <<"{", t.id, "\"">> \o t.text \o <<"\"", BoolText(t.completed), t.createdAt, "}">>

RECURSIVE StringifyItems(_)
StringifyItems(list) ==
    IF list = <<>> THEN <<>>
    ELSE IF Len(list) = 1 THEN StringifyTodo(list[1])
    ELSE StringifyTodo(list[1]) \o <<",">> \o StringifyItems(Tail(list))

JSONstringify(list) == <<"[">> \o StringifyItems(list) \o <<"]">>

-----------------------------------------------------------------------------
\* JSON.parse, on the texts a task-list record can hold: an array of task
\* items, the literal null (valid JSON that is not an array), or anything else
\* (a SyntaxError: ok = FALSE).

Punctuation == {"[", "]", "{", "}", ",", "\""}

ParseFail == [ok |-> FALSE, array |-> FALSE, items |-> <<>>]

QuoteEnd(s, i) ==
    LET js == {j \in i..Len(s) : s[j] = "\""}
    IN  IF js = {} THEN 0 ELSE CHOOSE j \in js : \A k \in js : j <= k

\* Mutant of ParseTodoAt: the completed flag is not read back.
ParseTodoAtNoFlag(s) ==
    LET q == QuoteEnd(s, 4)
    IN  IF Len(s) >= 7 /\ q # 0 /\ q + 3 <= Len(s)
        THEN [ok |-> TRUE,
              todo |-> [id |-> s[2], text |-> SubSeq(s, 4, q - 1),
                        completed |-> FALSE, createdAt |-> s[q + 2]],
              rest |-> SubSeq(s, q + 4, Len(s))]
        ELSE [ok |-> FALSE]

\* The task item at the front of s, and what follows it.
ParseTodoAt(s) ==
    LET q == QuoteEnd(s, 4)
        ok == /\ Len(s) >= 7
              /\ s[1] = "{"
              /\ s[2] \notin Punctuation
              /\ s[3] = "\""
              /\ q # 0
              /\ q + 3 <= Len(s)
              /\ s[q + 1] \in {"true", "false"}
              /\ s[q + 2] \notin Punctuation
              /\ s[q + 3] = "}"
    IN  IF ok
        THEN [ok |-> TRUE,
              todo |-> [id |-> s[2], text |-> SubSeq(s, 4, q - 1),
                        completed |-> (s[q + 1] = "true"), createdAt |-> s[q + 2]],
              rest |-> SubSeq(s, q + 4, Len(s))]
        ELSE [ok |-> FALSE]

RECURSIVE ParseItems(_)
ParseItems(s) ==
    LET p == ParseTodoAt(s)
    IN  IF ~p.ok THEN ParseFail
        ELSE IF p.rest = <<>> THEN [ok |-> TRUE, array |-> TRUE, items |-> <<p.todo>>]
        ELSE IF Head(p.rest) # "," THEN ParseFail
        ELSE LET r == ParseItems(Tail(p.rest))
             IN  IF r.ok
                 THEN [ok |-> TRUE, array |-> TRUE, items |-> <<p.todo>> \o r.items]
                 ELSE ParseFail

JSONparse(raw) ==
    IF raw = <<"null">> THEN [ok |-> TRUE, array |-> FALSE, items |-> <<>>]
    ELSE IF Len(raw) >= 2 /\ raw[1] = "[" /\ raw[Len(raw)] = "]"
    THEN IF Len(raw) = 2
         THEN [ok |-> TRUE, array |-> TRUE, items |-> <<>>]
         ELSE ParseItems(SubSeq(raw, 2, Len(raw) - 1))
    ELSE ParseFail

-----------------------------------------------------------------------------
\* localStorage entries and the four load/save functions.  readOk / writeOk say
\* whether getItem / setItem returned (TRUE) or threw (FALSE).

Absent == [present |-> FALSE, raw |-> <<>>]
Entry(raw) == [present |-> TRUE, raw |-> raw]

EmptyList == [array |-> TRUE, items |-> <<>>]

loadTodos(entry, readOk) ==
    IF ~readOk THEN EmptyList
    ELSE IF ~entry.present \/ entry.raw = <<>> THEN EmptyList
    ELSE LET p == JSONparse(entry.raw)
         IN  IF p.ok THEN [array |-> p.array, items |-> p.items] ELSE EmptyList

\* Mutant of saveTodos: the effect writes the list of the previous render.
saveTodosStale(list, writeOk) ==
    IF writeOk THEN Entry(JSONstringify(todos)) ELSE storageTodos

saveTodos(list, writeOk) ==
    IF writeOk THEN Entry(JSONstringify(list)) ELSE storageTodos

\* Mutant of loadDarkMode: a missing record is read as light.
loadDarkModeLight(entry, readOk) ==
    IF ~readOk THEN TRUE
    ELSE entry.present /\ entry.raw = <<"true">>

loadDarkMode(entry, readOk) ==
    IF ~readOk THEN TRUE
    ELSE IF ~entry.present THEN TRUE
    ELSE entry.raw = <<"true">>

\* Mutant of saveDarkMode: a failed write leaves no record behind.
saveDarkModeDropping(flag, writeOk) ==
    IF writeOk THEN Entry(<<BoolText(flag)>>) ELSE Absent

saveDarkMode(flag, writeOk) ==
    IF writeOk THEN Entry(<<BoolText(flag)>>) ELSE storageDark

\* Mutant of generateId: a generator that may repeat a value.
generateIdRepeating == Ids

\* Mutant of generateId: every call returns the same value.
generateIdConstant == {IdNames[1]}

\* crypto.randomUUID(): a value no earlier call returned.  Ids are opaque and
\* only ever compared for equality, so the fresh value is taken to be the first
\* unused name; the set is empty once the names are used up.
generateId ==
    LET fresh == {i \in 1..MaxIds : IdNames[i] \notin issued}
    IN  {IdNames[i] : i \in {j \in fresh : \A k \in fresh : j <= k}}

\* May the next setItem of a record throw (QuotaExceededError, SecurityError)?
WriteOutcomes(outstanding) ==
    IF outstanding < MaxFailedWrites THEN {TRUE, FALSE} ELSE {TRUE}

Outstanding == saveFailed.todos + saveFailed.dark

Failed(failedSoFar, ok) == IF ok THEN 0 ELSE failedSoFar + 1

\* The render body calls todos.filter: a TypeError unless todos is an array.
RenderThrows(loaded) == ~loaded.array

-----------------------------------------------------------------------------
\* The state updaters the handlers pass to setTodos.

\* Mutant of appended: the new task is put in front.
prepended(prev, newTodo) == <<newTodo>> \o prev

appended(prev, newTodo) == Append(prev, newTodo)

\* Mutant of toggled: the matching item is marked completed, never unmarked.
toggledOn(prev, id) ==
    [i \in 1..Len(prev) |->
        IF prev[i].id = id THEN [prev[i] EXCEPT !.completed = TRUE] ELSE prev[i]]

\* Mutant of toggled: the id is not compared, every item is flipped.
toggledAll(prev, id) ==
    [i \in 1..Len(prev) |-> [prev[i] EXCEPT !.completed = ~prev[i].completed]]

\* Mutant of toggled: the flipped item moves to the end of the list.
toggledToEnd(prev, id) ==
    LET same(todo) == todo.id = id
        other(todo) == todo.id # id
        flip(part) == [i \in 1..Len(part) |->
                          [part[i] EXCEPT !.completed = ~part[i].completed]]
    IN  SelectSeq(prev, other) \o flip(SelectSeq(prev, same))

toggled(prev, id) ==
    [i \in 1..Len(prev) |->
        IF prev[i].id = id
        THEN [prev[i] EXCEPT !.completed = ~prev[i].completed]
        ELSE prev[i]]

\* Mutant of deleted: the matching item and everything after it go.
deletedFrom(prev, id) ==
    LET hits == {i \in 1..Len(prev) : prev[i].id = id}
    IN  IF hits = {} THEN prev
        ELSE SubSeq(prev, 1, (CHOOSE i \in hits : \A j \in hits : i <= j) - 1)

deleted(prev, id) ==
    LET keep(todo) == todo.id # id IN SelectSeq(prev, keep)

\* Mutant of cleared: the filter keeps the completed items.
clearedActive(prev) ==
    LET keep(todo) == todo.completed IN SelectSeq(prev, keep)

\* Mutant of cleared: only the first completed item goes.
clearedFirst(prev) ==
    LET hits == {i \in 1..Len(prev) : prev[i].completed}
    IN  IF hits = {} THEN prev
        ELSE LET h == CHOOSE i \in hits : \A j \in hits : i <= j
             IN  SubSeq(prev, 1, h - 1) \o SubSeq(prev, h + 1, Len(prev))

cleared(prev) ==
    LET keep(todo) == ~todo.completed IN SelectSeq(prev, keep)

-----------------------------------------------------------------------------
\* What the render derives from the state.

\* Mutant of filteredTodos: the two filters are swapped.
filteredTodosSwapped ==
    LET shown(todo) ==
            IF filter = "active" THEN todo.completed
            ELSE IF filter = "completed" THEN ~todo.completed
            ELSE TRUE
    IN  SelectSeq(todos, shown)

filteredTodos ==
    LET shown(todo) ==
            IF filter = "active" THEN ~todo.completed
            ELSE IF filter = "completed" THEN todo.completed
            ELSE TRUE
    IN  SelectSeq(todos, shown)

activeCount ==
    LET active(todo) == ~todo.completed IN Len(SelectSeq(todos, active))

\* Mutant of completedCount: the completed items are counted in the shown list.
completedCountShown ==
    LET done(todo) == todo.completed IN Len(SelectSeq(filteredTodos, done))

completedCount ==
    LET done(todo) == todo.completed IN Len(SelectSeq(todos, done))

\* Mutant of footerShown: the footer goes with the shown list.
footerShownFiltered == Len(filteredTodos) > 0

\* Is the footer rendered, and the Clear Completed button in it?
footerShown == Len(todos) > 0

clearCompletedShown == footerShown /\ completedCount > 0

-----------------------------------------------------------------------------
\* Initial state: the page is not loaded yet and localStorage holds whatever an
\* earlier session (or anything else on the origin) left there.

SampleTodo == [id |-> "u1", text |-> <<"a">>, completed |-> TRUE, createdAt |-> "t1"]

InitialTodoRecords ==
    { Absent,
      Entry(<<>>),
      Entry(JSONstringify(<<SampleTodo>>)),
      Entry(<<"[", "{">>),
      Entry(<<"null">>) }

InitialDarkRecords ==
    { Absent, Entry(<<"true">>), Entry(<<"false">>), Entry(<<"y", "e", "s">>) }

RecordIds(entry) ==
    LET loaded == loadTodos(entry, TRUE)
    IN  {loaded.items[i].id : i \in 1..Len(loaded.items)}

Init ==
    /\ phase = "closed"
    /\ todos = <<>>
    /\ darkMode = TRUE
    /\ filter = "all"
    /\ inputValue = <<>>
    /\ storageTodos \in InitialTodoRecords
    /\ storageDark \in InitialDarkRecords
    /\ saveFailed = [todos |-> 0, dark |-> 0]
    /\ issued = RecordIds(storageTodos)
    /\ lastOp = [op |-> "none", id |-> NoId, again |-> FALSE, readT |-> TRUE, readD |-> TRUE]
    /\ calls = <<>>

-----------------------------------------------------------------------------
\* Mounting App: the two lazy useState initialisers, the first render, then
\* both effects (which run once after the first commit).

\* Mutant of Mount: the effects do not run after the first commit.
MountWithoutEffects ==
    \E readT, readD \in BOOLEAN :
        LET loaded == loadTodos(storageTodos, readT)
            dark == loadDarkMode(storageDark, readD)
        IN  /\ darkMode' = dark
            /\ filter' = "all"
            /\ inputValue' = <<>>
            /\ todos' = loaded.items
            /\ phase' = IF RenderThrows(loaded) THEN "crashed" ELSE "running"
            /\ lastOp' = [op |-> "load", id |-> NoId, again |-> FALSE,
                        readT |-> readT, readD |-> readD]
            /\ UNCHANGED <<storageTodos, storageDark, saveFailed, issued>>

Mount ==
    \E readT, readD \in BOOLEAN, okT \in WriteOutcomes(Outstanding) :
      \E okD \in WriteOutcomes(Outstanding + (IF okT THEN 0 ELSE 1)) :
        LET loaded == loadTodos(storageTodos, readT)
            dark == loadDarkMode(storageDark, readD)
        IN  /\ darkMode' = dark
            /\ filter' = "all"
            /\ inputValue' = <<>>
            /\ todos' = loaded.items
            /\ IF RenderThrows(loaded)
               THEN /\ phase' = "crashed"
                    /\ UNCHANGED <<storageTodos, storageDark, saveFailed>>
               ELSE /\ phase' = "running"
                    /\ storageTodos' = saveTodos(loaded.items, okT)
                    /\ storageDark' = saveDarkMode(dark, okD)
                    /\ saveFailed' = [todos |-> Failed(saveFailed.todos, okT),
                                      dark |-> Failed(saveFailed.dark, okD)]
            /\ lastOp' = [op |-> "load", id |-> NoId, again |-> FALSE,
                        readT |-> readT, readD |-> readD]
            /\ UNCHANGED issued

\* First load of the page.
App == phase = "closed" /\ Mount

\* The user reloads the page: the in-memory state is dropped and App mounts again.
Reload == phase # "closed" /\ Mount

-----------------------------------------------------------------------------
\* The history record of a handler call.  again: for toggleTodo and
\* clearCompleted, the call before it was the same call.
Op(name, id) ==
    [op |-> name, id |-> id,
     again |-> (name \in {"toggle", "clear"} /\ lastOp.op = name /\ lastOp.id = id),
     readT |-> TRUE, readD |-> TRUE]

\* Event handlers.  Each runs to completion together with the effect it
\* triggers: a new todos array runs saveTodos, a new darkMode runs saveDarkMode.

setInputValue(values) ==
    /\ phase = "running"
    /\ \E v \in values : inputValue' = v
    /\ lastOp' = Op("input", NoId)
    /\ UNCHANGED <<phase, todos, darkMode, filter, storageTodos, storageDark,
                   saveFailed, issued>>

addTodo ==
    /\ phase = "running"
    /\ LET text == Trim(inputValue)
       IN  IF text = <<>>
           THEN /\ lastOp' = Op("add", NoId)
                /\ UNCHANGED <<todos, inputValue, storageTodos, saveFailed, issued>>
           ELSE \E id \in generateId, now \in Times, ok \in WriteOutcomes(Outstanding) :
                    /\ todos' = appended(todos, [id |-> id, text |-> text,
                                                 completed |-> FALSE, createdAt |-> now])
                    /\ inputValue' = <<>>
                    /\ storageTodos' = saveTodos(todos', ok)
                    /\ saveFailed' = [saveFailed EXCEPT !.todos = Failed(@, ok)]
                    /\ issued' = issued \cup {id}
                    /\ lastOp' = Op("add", id)
    /\ UNCHANGED <<phase, darkMode, filter, storageDark>>

toggleTodo ==
    /\ phase = "running"
    /\ \E id \in Ids, ok \in WriteOutcomes(Outstanding) :
        /\ todos' = toggled(todos, id)
        /\ storageTodos' = saveTodos(todos', ok)
        /\ saveFailed' = [saveFailed EXCEPT !.todos = Failed(@, ok)]
        /\ lastOp' = Op("toggle", id)
    /\ UNCHANGED <<phase, darkMode, filter, inputValue, storageDark, issued>>

deleteTodo ==
    /\ phase = "running"
    /\ \E id \in Ids, ok \in WriteOutcomes(Outstanding) :
        /\ todos' = deleted(todos, id)
        /\ storageTodos' = saveTodos(todos', ok)
        /\ saveFailed' = [saveFailed EXCEPT !.todos = Failed(@, ok)]
        /\ lastOp' = Op("delete", id)
    /\ UNCHANGED <<phase, darkMode, filter, inputValue, storageDark, issued>>

clearCompleted ==
    /\ phase = "running"
    /\ \E ok \in WriteOutcomes(Outstanding) :
        /\ todos' = cleared(todos)
        /\ storageTodos' = saveTodos(todos', ok)
        /\ saveFailed' = [saveFailed EXCEPT !.todos = Failed(@, ok)]
    /\ lastOp' = Op("clear", NoId)
    /\ UNCHANGED <<phase, darkMode, filter, inputValue, storageDark, issued>>

\* Mutant of toggleDarkMode: one effect saves both records.
toggleDarkModeSavesAll ==
    /\ phase = "running"
    /\ \E ok \in WriteOutcomes(Outstanding) :
        /\ darkMode' = ~darkMode
        /\ storageDark' = saveDarkMode(darkMode', ok)
        /\ storageTodos' = saveTodos(todos, ok)
        /\ saveFailed' = [todos |-> Failed(saveFailed.todos, ok),
                          dark |-> Failed(saveFailed.dark, ok)]
    /\ lastOp' = Op("theme", NoId)
    /\ UNCHANGED <<phase, todos, filter, inputValue, issued>>

toggleDarkMode ==
    /\ phase = "running"
    /\ \E ok \in WriteOutcomes(Outstanding) :
        /\ darkMode' = ~darkMode
        /\ storageDark' = saveDarkMode(darkMode', ok)
        /\ saveFailed' = [saveFailed EXCEPT !.dark = Failed(@, ok)]
    /\ lastOp' = Op("theme", NoId)
    /\ UNCHANGED <<phase, todos, filter, inputValue, storageTodos, issued>>

\* Mutant of setFilter: the todos effect has no dependency list and runs after
\* every render.
setFilterSaving ==
    /\ phase = "running"
    /\ \E f \in Filters : filter' = f
    /\ \E ok \in WriteOutcomes(Outstanding) :
        /\ storageTodos' = saveTodos(todos, ok)
        /\ saveFailed' = [saveFailed EXCEPT !.todos = Failed(@, ok)]
    /\ lastOp' = Op("filter", NoId)
    /\ UNCHANGED <<phase, todos, darkMode, inputValue, storageDark, issued>>

setFilter ==
    /\ phase = "running"
    /\ \E f \in Filters : filter' = f
    /\ lastOp' = Op("filter", NoId)
    /\ UNCHANGED <<phase, todos, darkMode, inputValue, storageTodos, storageDark,
                   saveFailed, issued>>

Next ==
    \/ App /\ UNCHANGED calls
    \/ Reload /\ UNCHANGED calls
    \/ setInputValue(Inputs) /\ UNCHANGED calls
    \/ addTodo /\ UNCHANGED calls
    \/ toggleTodo /\ UNCHANGED calls
    \/ deleteTodo /\ UNCHANGED calls
    \/ clearCompleted /\ UNCHANGED calls
    \/ toggleDarkMode /\ UNCHANGED calls
    \/ setFilter /\ UNCHANGED calls

Spec == Init /\ [][Next]_vars

\* Only tasks are added: the page is opened on a record that yields no tasks,
\* and the user types, submits, switches the filter and the theme.  calls
\* collects the non-blank texts submitted.
InitAdds == Init /\ loadTodos(storageTodos, TRUE) = EmptyList

NextAdds ==
    \/ App /\ UNCHANGED calls
    \/ setInputValue(Inputs \cup MoreInputs) /\ UNCHANGED calls
    \/ addTodo /\ calls' = IF Len(todos') > Len(todos) THEN Append(calls, inputValue) ELSE calls
    \/ toggleDarkMode /\ UNCHANGED calls
    \/ setFilter /\ UNCHANGED calls

SpecAdds == InitAdds /\ [][NextAdds]_vars

-----------------------------------------------------------------------------
\* Vocabulary of the properties.

TodoIds == {todos[i].id : i \in 1..Len(todos)}

IsBlank(v) == \A i \in 1..Len(v) : v[i] \in Whitespace

\* t is v without the blanks at its two ends.
IsTrimOf(t, v) ==
    /\ t # <<>>
    /\ t[1] \notin Whitespace
    /\ t[Len(t)] \notin Whitespace
    /\ \E i \in 1..Len(v) :
        /\ i + Len(t) - 1 <= Len(v)
        /\ SubSeq(v, i, i + Len(t) - 1) = t
        /\ IsBlank(SubSeq(v, 1, i - 1))
        /\ IsBlank(SubSeq(v, i + Len(t), Len(v)))

TodosInSync == storageTodos = Entry(JSONstringify(todos))
DarkInSync == storageDark = Entry(<<BoolText(darkMode)>>)

\* The last handler changed the task list or the theme (a blank addTodo did not).
MutationDone ==
    \/ lastOp.op \in {"toggle", "delete", "clear", "theme"}
    \/ lastOp.op = "add" /\ lastOp.id # NoId

-----------------------------------------------------------------------------
\* C1 (as stated): after every completed mutating operation the task-list
\* record is the serialization of the in-memory list and the theme record that
\* of the theme flag.  Violated: a setItem that throws leaves the record behind.
C1_WriteThroughAlways ==
    (phase = "running" /\ MutationDone) => (TodosInSync /\ DarkInSync)

\* C1 (amended): while App is mounted, each record is the serialization of its
\* in-memory value unless the last write of that record failed.
C1_WriteThrough ==
    phase = "running" =>
        /\ saveFailed.todos = 0 => TodosInSync
        /\ saveFailed.dark = 0 => DarkInSync

C1_Witness ==
    /\ phase = "running"
    /\ lastOp.op = "toggle"
    /\ lastOp.id \in TodoIds
    /\ Len(todos) = 2
    /\ ~darkMode
    /\ saveFailed = [todos |-> 0, dark |-> 0]
    /\ TodosInSync /\ DarkInSync

\* C2: a reload of a saved state (the last write of the record succeeded and
\* getItem returns) mounts App with the same task list, item for item, and the
\* same theme flag.
C2_RoundTrip ==
    [][(phase = "running" /\ lastOp'.op = "load") =>
          /\ (saveFailed.todos = 0 /\ lastOp'.readT) =>
                (phase' = "running" /\ todos' = todos)
          /\ (saveFailed.dark = 0 /\ lastOp'.readD) => darkMode' = darkMode]_vars

C2_Witness ==
    /\ phase = "running"
    /\ lastOp.op = "load" /\ lastOp.readT /\ lastOp.readD
    /\ Len(todos) = 2
    /\ todos[1].completed /\ ~todos[2].completed
    /\ ~darkMode

\* C3: starting from an empty list, after any sequence of addTodo calls with
\* non-blank text the list is as long as the sequence and its i-th item carries
\* the trimmed text of the i-th call.
C3_AddSequence ==
    phase = "running" =>
        /\ Len(todos) = Len(calls)
        /\ \A i \in 1..Len(calls) : IsTrimOf(todos[i].text, calls[i])

C3_Witness ==
    /\ phase = "running"
    /\ Len(calls) = 2
    /\ todos[1].text # todos[2].text
    /\ calls[1] # todos[1].text

\* C4: addTodo on an empty or all-blank text field changes nothing: not the
\* task list, not the two records, not the theme, not the filter, and App stays
\* mounted.
C4_BlankAddNoOp ==
    [][(lastOp'.op = "add" /\ IsBlank(inputValue)) =>
          /\ UNCHANGED <<todos, storageTodos, storageDark, darkMode, filter>>
          /\ phase' = "running"]_vars

C4_Witness ==
    /\ phase = "running"
    /\ lastOp.op = "add" /\ lastOp.id = NoId
    /\ inputValue = <<" ", "\t">>
    /\ todos # <<>>

\* C5: addTodo on a non-blank text appends exactly one item, whose text is the
\* trimmed input, which is not completed and whose id no earlier item has;
\* the earlier items keep their places and fields.
C5_AddAppends ==
    [][(lastOp'.op = "add" /\ ~IsBlank(inputValue)) =>
          /\ Len(todos') = Len(todos) + 1
          /\ SubSeq(todos', 1, Len(todos)) = todos
          /\ IsTrimOf(todos'[Len(todos')].text, inputValue)
          /\ todos'[Len(todos')].completed = FALSE
          /\ \A i \in 1..Len(todos) : todos[i].id # todos'[Len(todos')].id]_vars

C5_Witness ==
    /\ phase = "running"
    /\ lastOp.op = "add" /\ lastOp.id # NoId
    /\ Len(todos) = 2
    /\ todos[1].completed
    /\ todos[2].id = lastOp.id

\* The positions of s that hold an item with this id / that is not completed.
Positions(s, id) == {i \in 1..Len(s) : s[i].id = id}
ActivePositions(s) == {i \in 1..Len(s) : ~s[i].completed}

\* The k-th smallest element of a set of positions.
Nth(P, k) == CHOOSE i \in P : Cardinality({j \in P : j <= i}) = k

\* after is before with the items outside P taken out, the rest in place.
KeepsExactly(before, after, P) ==
    /\ Len(after) = Cardinality(P)
    /\ \A k \in 1..Len(after) : after[k] = before[Nth(P, k)]

\* C6: toggleTodo(id) twice in a row gives back the list from before the two
\* calls: whatever the first call made of the list, the updater applied again
\* with the same id undoes it.
C6_ToggleInvolution ==
    [][lastOp'.op = "toggle" => toggled(todos', lastOp'.id) = todos]_vars

C6_Witness ==
    /\ phase = "running"
    /\ lastOp.op = "toggle" /\ lastOp.again
    /\ lastOp.id \in TodoIds
    /\ Len(todos) = 2

\* C7: toggleTodo(id) flips the completed flag of the item with that id and
\* nothing else: same length, every other item and every other field as it was;
\* with no such item the list is as it was.
C7_ToggleFrame ==
    [][lastOp'.op = "toggle" =>
          /\ Len(todos') = Len(todos)
          /\ \A i \in 1..Len(todos) :
                /\ todos'[i].id = todos[i].id
                /\ todos'[i].text = todos[i].text
                /\ todos'[i].createdAt = todos[i].createdAt
                /\ todos'[i].completed =
                      IF todos[i].id = lastOp'.id
                      THEN ~todos[i].completed
                      ELSE todos[i].completed
          /\ Positions(todos, lastOp'.id) = {} => todos' = todos]_vars

C7_Witness ==
    /\ phase = "running"
    /\ lastOp.op = "toggle"
    /\ Len(todos) = 2
    /\ todos[2].id = lastOp.id
    /\ todos[2].completed /\ ~todos[1].completed

\* C8: deleteTodo(id) takes out exactly one item when the list holds the id and
\* none when it does not; the list never gets shorter by more than one and the
\* items that stay are as they were, in place.
C8_DeleteOne ==
    [][lastOp'.op = "delete" =>
          LET hits == Positions(todos, lastOp'.id)
          IN  /\ hits # {} => Len(todos') = Len(todos) - 1
              /\ hits = {} => todos' = todos
              /\ Len(todos') + 1 >= Len(todos)
              /\ KeepsExactly(todos, todos', (1..Len(todos)) \ hits)]_vars

C8_Witness ==
    /\ phase = "running"
    /\ lastOp.op = "delete"
    /\ lastOp.id \in issued \ TodoIds
    /\ Len(todos) = 1
    /\ Cardinality(issued) = 2

\* C9: clearCompleted leaves exactly the items that were not completed, in
\* their order and with their fields.
C9_ClearCompleted ==
    [][lastOp'.op = "clear" =>
          KeepsExactly(todos, todos', ActivePositions(todos))]_vars

C9_Witness ==
    /\ phase = "running"
    /\ lastOp.op = "clear" /\ ~lastOp.again
    /\ Len(todos) = 1
    /\ Cardinality(issued) = 2
    /\ saveFailed.todos = 0

\* C10 (as stated): a second clearCompleted right after the first leaves the
\* list and the task-list record as the first left them.  Violated: when the
\* write of the first call failed, the write of the second brings the record
\* up to date.
C10_ClearTwiceSame ==
    [][(lastOp.op = "clear" /\ lastOp'.op = "clear") =>
          (todos' = todos /\ storageTodos' = storageTodos)]_vars

\* C10 (amended): a second clearCompleted right after the first leaves the list
\* as the first left it; the task-list record stays as it was too, unless the
\* first call's write failed, and then it stays or becomes the serialization
\* of that list.
C10_ClearIdempotent ==
    [][(lastOp.op = "clear" /\ lastOp'.op = "clear") =>
          /\ todos' = todos
          /\ saveFailed.todos = 0 => storageTodos' = storageTodos
          /\ storageTodos' \in {storageTodos, Entry(JSONstringify(todos))}]_vars

C10_Witness ==
    /\ phase = "running"
    /\ lastOp.op = "clear" /\ lastOp.again
    /\ todos # <<>>
    /\ TodosInSync

-----------------------------------------------------------------------------
\* The record does not hold a list of task items: there is none, or its text
\* is empty, is not JSON, or is JSON for something that is not an array.
NotATaskList(entry) ==
    \/ ~entry.present
    \/ entry.raw = <<>>
    \/ ~JSONparse(entry.raw).ok
    \/ ~JSONparse(entry.raw).array

\* C11: whenever the task-list record is absent or does not hold a list of
\* task items, App mounts with an empty task list and without an error (the
\* handlers run only while App is mounted).  Violated: a record holding JSON that is
\* not an array (null) is returned as it is by loadTodos, and the first render
\* throws on todos.filter.
C11_LoadFailsSoft ==
    [][(lastOp'.op = "load" /\ NotATaskList(storageTodos)) =>
          /\ phase' = "running"
          /\ todos' = <<>>]_vars

\* C12: whenever the theme record cannot be read, or holds a text that is
\* neither "true" nor "false", the theme flag after the load is TRUE (dark).
\* Violated: any text other than "true" is read as FALSE.
C12_ThemeDefaultsDark ==
    [][(/\ lastOp'.op = "load"
        /\ \/ ~lastOp'.readD
           \/ /\ storageDark.present
              /\ storageDark.raw \notin {<<"true">>, <<"false">>}) =>
          darkMode' = TRUE]_vars

\* C13: with no theme record the load gives TRUE (dark); the flag turns FALSE
\* only by toggleDarkMode or by a load that reads a record.
C13_DarkUnlessToggledOrLoaded ==
    [][/\ (lastOp'.op = "load" /\ ~storageDark.present) => darkMode' = TRUE
       /\ (darkMode /\ ~darkMode') =>
             \/ lastOp'.op = "theme"
             \/ lastOp'.op = "load" /\ lastOp'.readD /\ storageDark.present]_vars

\* The page was loaded with no theme record, and there is still none because
\* the write that follows the load failed.
C13_Witness ==
    /\ phase = "running"
    /\ lastOp.op = "load" /\ lastOp.readD
    /\ ~storageDark.present
    /\ saveFailed.dark = 1
    /\ darkMode

-----------------------------------------------------------------------------
\* The handler call changed the task list (a blank addTodo did not).
TaskMutation(op) ==
    \/ op.op \in {"toggle", "delete", "clear"}
    \/ op.op = "add" /\ op.id # NoId

\* C14: when the write that follows a mutating operation fails, the in-memory
\* state is the mutated one, the record keeps the content it had, and App
\* stays mounted (so later handlers work on the mutated state).
C14_FailedWriteKeepsMutation ==
    [][/\ (TaskMutation(lastOp') /\ saveFailed'.todos = saveFailed.todos + 1) =>
             /\ storageTodos' = storageTodos
             /\ phase' = "running"
             /\ lastOp'.op = "add" =>
                   (Len(todos') = Len(todos) + 1 /\ todos'[Len(todos')].id = lastOp'.id)
             /\ lastOp'.op = "toggle" => todos' = toggled(todos, lastOp'.id)
             /\ lastOp'.op = "delete" => todos' = deleted(todos, lastOp'.id)
             /\ lastOp'.op = "clear" => todos' = cleared(todos)
       /\ (lastOp'.op = "theme" /\ saveFailed'.dark = saveFailed.dark + 1) =>
             /\ storageDark' = storageDark
             /\ phase' = "running"
             /\ darkMode' = ~darkMode]_vars

\* The theme was switched to light, the write failed and the record still says dark.
C14_Witness ==
    /\ phase = "running"
    /\ lastOp.op = "theme"
    /\ saveFailed.dark = 1
    /\ ~darkMode
    /\ storageDark = Entry(<<"true">>)

\* C15: wherever the counts are rendered, activeCount + completedCount is the
\* number of items in the task list.
C15_CountsAddUp ==
    phase = "running" => activeCount + completedCount = Len(todos)

\* A list loaded from its record, with one item of each kind, shown filtered.
C15_Witness ==
    /\ phase = "running"
    /\ lastOp.op = "filter"
    /\ filter = "active"
    /\ Len(todos) = 2
    /\ activeCount = 1 /\ completedCount = 1

-----------------------------------------------------------------------------
\* The positions of the task list that the filter lets through.
ShownPositions ==
    IF filter = "active" THEN ActivePositions(todos)
    ELSE IF filter = "completed" THEN (1..Len(todos)) \ ActivePositions(todos)
    ELSE 1..Len(todos)

\* C16: after every step that leaves App mounted, filteredTodos is the task
\* list with exactly the items that do not match the filter taken out (none
\* for "all", the completed ones for "active", the active ones for
\* "completed"), the rest in their order; and setFilter leaves the task list
\* as it was.
C16_FilteredIsSubsequence ==
    [][/\ phase' = "running" => KeepsExactly(todos, filteredTodos, ShownPositions)'
       /\ lastOp'.op = "filter" => todos' = todos]_vars

\* The filter was set to "completed" on a list of an active item followed by a
\* completed one: only the second is shown.
C16_Witness ==
    /\ phase = "running"
    /\ lastOp.op = "filter"
    /\ filter = "completed"
    /\ Len(todos) = 2
    /\ ~todos[1].completed /\ todos[2].completed
    /\ filteredTodos = <<todos[2]>>

\* C17: while App is mounted the footer is rendered exactly when the task list
\* is non-empty, whatever the filter shows, and the Clear Completed button
\* exactly when some item of the task list is completed.
C17_FooterAndClearButton ==
    phase = "running" =>
        /\ footerShown <=> todos # <<>>
        /\ clearCompletedShown <=> \E i \in 1..Len(todos) : todos[i].completed

\* Every item is completed and the filter is "active": nothing is listed, the
\* footer and its button are there.
C17_Witness ==
    /\ phase = "running"
    /\ filter = "active"
    /\ todos # <<>>
    /\ filteredTodos = <<>>
    /\ footerShown
    /\ clearCompletedShown

\* Two items stand in the same order in the lists before and after.
SameOrder(before, after) ==
    \A i, j \in 1..Len(before) : \A k, l \in 1..Len(after) :
        (i < j /\ after[k].id = before[i].id /\ after[l].id = before[j].id) => k < l

\* C18: every step between two mounted states (a handler call, or a reload,
\* which reads back what the last successful write saved) keeps the relative
\* order of any two items that are in the task list before and after it.
C18_OrderKept ==
    [][(phase = "running" /\ phase' = "running") => SameOrder(todos, todos')]_vars

\* A reload read back two items, the second of them added in the application.
C18_Witness ==
    /\ phase = "running"
    /\ lastOp.op = "load"
    /\ Len(todos) = 2
    /\ todos[2].id \in issued
    /\ todos[1].id # todos[2].id

-----------------------------------------------------------------------------
\* On this step setItem was called for the record: the count of failed writes
\* in a row went back to 0 or up by one.
WroteTodos == saveFailed'.todos \in {0, saveFailed.todos + 1}
WroteDark == saveFailed'.dark \in {0, saveFailed.dark + 1}

\* C19 (as stated): once a write of a record has failed, that record is not
\* written again before the next mutating operation on it.  Violated: a
\* reload is no mutating operation, and mounting App writes both records.
C19_NoWriteBeforeNextMutation ==
    [][/\ (saveFailed.todos > 0 /\ ~TaskMutation(lastOp')) =>
             UNCHANGED <<storageTodos, saveFailed.todos>>
       /\ (saveFailed.dark > 0 /\ lastOp'.op # "theme") =>
             UNCHANGED <<storageDark, saveFailed.dark>>]_vars

\* C19 (amended): once a write of a record has failed, no handler other than
\* a mutating operation on that record writes it; the next mutating operation
\* on it, and the next mount of App, do write it, and whenever that write
\* succeeds the record is the serialization of the in-memory value.
C19_NoRetryThenRecovery ==
    [][/\ (saveFailed.todos > 0 /\ ~TaskMutation(lastOp') /\ lastOp'.op # "load") =>
             UNCHANGED <<storageTodos, saveFailed.todos>>
       /\ (saveFailed.dark > 0 /\ lastOp'.op \notin {"theme", "load"}) =>
             UNCHANGED <<storageDark, saveFailed.dark>>
       /\ (saveFailed.todos > 0 /\ phase' = "running"
              /\ (TaskMutation(lastOp') \/ lastOp'.op = "load")) =>
             /\ WroteTodos
             /\ saveFailed'.todos = 0 => TodosInSync'
       /\ (saveFailed.dark > 0 /\ phase' = "running"
              /\ lastOp'.op \in {"theme", "load"}) =>
             /\ WroteDark
             /\ saveFailed'.dark = 0 => DarkInSync']_vars

\* A write of the task list failed, and the filter was set since: the record
\* is still the one from before the failed write.
C19_Witness ==
    /\ phase = "running"
    /\ saveFailed.todos = 1
    /\ lastOp.op = "filter"
    /\ todos # <<>>
    /\ ~TodosInSync

\* C20: addTodo, toggleTodo, deleteTodo and clearCompleted leave the theme
\* flag, the theme record and the filter as they were; toggleDarkMode leaves
\* the task list, its record and the filter as they were; setFilter changes
\* nothing but the filter and writes no record; every mount sets the filter
\* to "all".
C20_Independence ==
    [][/\ lastOp'.op \in {"add", "toggle", "delete", "clear"} =>
             UNCHANGED <<darkMode, storageDark, saveFailed.dark, filter>>
       /\ lastOp'.op = "theme" =>
             UNCHANGED <<todos, storageTodos, saveFailed.todos, filter>>
       /\ lastOp'.op = "filter" =>
             UNCHANGED <<todos, darkMode, inputValue, storageTodos, storageDark,
                         saveFailed, phase>>
       /\ lastOp'.op = "load" => filter' = "all"]_vars

\* The theme was switched on a filtered, non-empty list whose record is behind
\* the list: the record stayed behind.
C20_Witness ==
    /\ phase = "running"
    /\ lastOp.op = "theme"
    /\ filter = "completed"
    /\ todos # <<>>
    /\ saveFailed.todos = 1
    /\ ~TodosInSync

-----------------------------------------------------------------------------
\* No two items of the list carry the same id.
DistinctIds(s) == \A i, j \in 1..Len(s) : s[i].id = s[j].id => i = j

\* The positions at which two lists of the same length differ.
ChangedPositions(before, after) == {i \in 1..Len(before) : after[i] # before[i]}

\* C21: after every step that leaves App mounted (a mount that read the task
\* list from its record included) the ids in the task list are pairwise
\* distinct; toggleTodo(id) changes at most one item and deleteTodo(id) takes
\* out at most one.
C21_UniqueIds ==
    [][phase' = "running" =>
          /\ DistinctIds(todos')
          /\ lastOp'.op = "toggle" =>
                /\ Len(todos') = Len(todos)
                /\ Cardinality(ChangedPositions(todos, todos')) <= 1
          /\ lastOp'.op = "delete" => Len(todos') >= Len(todos) - 1]_vars

\* A mount read back a list of an item that was in the first record and an
\* item added in the application.
C21_Witness ==
    /\ phase = "running"
    /\ lastOp.op = "load" /\ lastOp.readT
    /\ Len(todos) = 2
    /\ todos[1].id = SampleTodo.id
    /\ todos[2].id \in issued \ {SampleTodo.id}
    /\ TodosInSync

-----------------------------------------------------------------------------
\* The record holds no text that JSON.parse accepts.
Unparseable(entry) == entry.present /\ entry.raw # <<>> /\ ~JSONparse(entry.raw).ok

\* The record is the serialization of some list.
HoldsAList(entry) ==
    /\ entry.present
    /\ JSONparse(entry.raw).ok
    /\ JSONparse(entry.raw).array

====
